---- MODULE Spec2Model ----
(***************************************************************************)
(* Backend process lifecycle of src-tauri/src/main.rs: the managed state   *)
(* BackendProcess(Mutex<Option<Child>>), the commands start_backend,       *)
(* stop_backend, get_backend_status and get_api_url, the delayed           *)
(* auto-start task and the window CloseRequested handler of main().        *)
(*                                                                         *)
(* Every command is modelled at the granularity of its lock: invocation,   *)
(* acquisition of the mutex, the steps made while the guard is alive, and  *)
(* the return that drops the guard.  The operating system's side (a child  *)
(* exiting, a SIGKILL being delivered) is modelled by ProcExit / ProcDie.  *)
(* Results of the fallible system calls (resource_dir, spawn, kill,        *)
(* try_wait) are nondeterministic inputs.                                  *)
(***************************************************************************)
EXTENDS Integers, Sequences, FiniteSets, TLC

\* ------------------------------------------------------------------ bounds
MaxSpawns == 2          \* child processes spawned in one run
NumUI     == 1          \* concurrent UI invocations (besides auto-start, window)

\* --------------------------------------------------------------- constants
DefaultPort == 8080     \* port of the hard-coded API URL
Ports == {DefaultPort, 9090}

AutoTask == <<"auto", 0>>       \* task spawned in setup()
WinHandler == <<"win", 0>>      \* on_window_event closure
UIThreads == {<<"ui", i>> : i \in 1..NumUI}
Threads == {AutoTask, WinHandler} \cup UIThreads

Pids == 1..MaxSpawns

\* values of cfg!(target_os) and cfg!(target_arch); "freebsd" stands for the
\* operating systems start_backend does not name
OperatingSystems == {"macos", "windows", "linux", "freebsd"}
Architectures == {"aarch64", "x86_64"}
Targets == [os : OperatingSystems, arch : Architectures]

\* the binary name start_backend selects for a build target
binary_name(tg) ==
    IF tg.os = "macos"
    THEN IF tg.arch = "aarch64"
         THEN "server-aarch64-apple-darwin"
         ELSE "server-x86_64-apple-darwin"
    ELSE IF tg.os = "windows"
         THEN "server-x86_64-pc-windows-msvc.exe"
         ELSE "server-x86_64-unknown-linux-gnu"

\* resource_dir.join("binaries").join(binary_name)
server_path(tg) == <<"resource_dir", "binaries", binary_name(tg)>>

\* possible contents of the persisted JSON configuration file
ConfigFiles ==
    {[kind |-> k, api |-> 0] : k \in {"missing", "unreadable", "malformed", "nofield"}}
    \cup {[kind |-> "ok", api |-> p] : p \in Ports}

VARIABLES
    debug,        \* cfg!(debug_assertions) of this build
    target,       \* cfg!(target_os), cfg!(target_arch) of this build
    exe,          \* pid -> the path handed to Command::new, <<>> before the spawn
    store,        \* BackendProcess.0 : Option<Child>, <<>> is None, <<c>> is Some(c)
    child,        \* stop_backend's local `child` taken out of the store
    procs,        \* OS process table: pid -> "unborn"|"running"|"killed"|"zombie"|"reaped"
    spawned,      \* number of successful Command::spawn calls so far
    lock,         \* set of threads owning a MutexGuard of BackendProcess.0
    pc,           \* position of every thread
    last,         \* the command that returned most recently, with its result
    prev,         \* the command that returned before `last`
    reportedStopped  \* get_backend_status has returned "stopped" since the last spawn

vars == <<debug, target, exe, store, child, procs, spawned, lock, pc, last, prev, reportedStopped>>

\* std::process::Child: the pid and the cached exit status (Child.status)
Child(p, s) == [pid |-> p, status |-> s]

\* no configuration file is consulted by the lifecycle commands
NoConfig == [kind |-> "unread", api |-> 0]

NoResult == [op |-> "none", res |-> "none", pid |-> 0, cfg |-> NoConfig]

\* the state after tauri::Builder ... .manage(BackendProcess(Mutex::new(None)))
Boot ==
    /\ debug \in BOOLEAN
    /\ exe = [p \in Pids |-> <<>>]
    /\ store = <<>>
    /\ child = <<>>
    /\ procs = [p \in Pids |-> "unborn"]
    /\ spawned = 0
    /\ lock = {}
    /\ pc = [t \in Threads |-> IF t = AutoTask THEN "sleep" ELSE "idle"]
    /\ last = NoResult
    /\ prev = NoResult
    /\ reportedStopped = FALSE

\* the lifecycle does not depend on the target: one build
Init == Boot /\ target = [os |-> "macos", arch |-> "aarch64"]

\* every build target
InitTargets == Boot /\ target \in Targets

\* ----------------------------------------------------------------- helpers
is_some(opt) == Len(opt) = 1

\* where a thread goes when its command returns
Done(t) == IF t \in UIThreads THEN "idle" ELSE "done"

\* threads that may still reach Command::spawn
PendingStarts ==
    Cardinality({t \in Threads : pc[t] \in {"sleep", "start_lock", "start_check", "start_spawn"}})

\* a command returns: the guard is dropped, the result is handed to the caller
Return(t, op, res, p) ==
    /\ pc' = [pc EXCEPT ![t] = Done(t)]
    /\ lock' = lock \ {t}
    /\ last' = [op |-> op, res |-> res, pid |-> p, cfg |-> NoConfig]
    /\ prev' = last
    /\ reportedStopped' =
          IF op = "get_backend_status" /\ res = "stopped" THEN TRUE
          ELSE IF op = "start_backend" /\ p # 0 THEN FALSE
          ELSE reportedStopped

\* ------------------------------------------------------------ start_backend
\* the UI invokes the start_backend command
StartCall(t) ==
    /\ t \in UIThreads
    /\ pc[t] = "idle"
    /\ spawned + PendingStarts < MaxSpawns
    /\ pc' = [pc EXCEPT ![t] = "start_lock"]
    /\ UNCHANGED <<debug, target, exe, store, child, procs, spawned, lock, last, prev, reportedStopped>>

\* the auto-start task finishes its sleep and calls start_backend
AutoStart ==
    /\ pc[AutoTask] = "sleep"
    /\ pc' = [pc EXCEPT ![AutoTask] = "start_lock"]
    /\ UNCHANGED <<debug, target, exe, store, child, procs, spawned, lock, last, prev, reportedStopped>>

\* state.0.lock().unwrap(): blocks until the mutex is free
StartLock(t) ==
    /\ pc[t] = "start_lock"
    /\ lock = {}
    /\ lock' = {t}
    /\ pc' = [pc EXCEPT ![t] = "start_check"]
    /\ UNCHANGED <<debug, target, exe, store, child, procs, spawned, last, prev, reportedStopped>>

\* start_backend that reports an error when a handle is already stored
StartCheck_AlreadyRunningErr(t) ==
    /\ pc[t] = "start_check"
    /\ IF is_some(store)
       THEN Return(t, "start_backend", "Err", 0)
       ELSE IF debug
       THEN Return(t, "start_backend", "Ok", 0)
       ELSE \/ Return(t, "start_backend", "Err", 0)
            \/ /\ pc' = [pc EXCEPT ![t] = "start_spawn"]
               /\ UNCHANGED <<lock, last, prev, reportedStopped>>
    /\ UNCHANGED <<debug, target, exe, store, child, procs, spawned>>

\* start_backend without the already-running guard
StartCheck_NoGuard(t) ==
    /\ pc[t] = "start_check"
    /\ IF debug
       THEN Return(t, "start_backend", "Ok", 0)
       ELSE \/ Return(t, "start_backend", "Err", 0)
            \/ /\ pc' = [pc EXCEPT ![t] = "start_spawn"]
               /\ UNCHANGED <<lock, last, prev, reportedStopped>>
    /\ UNCHANGED <<debug, target, exe, store, child, procs, spawned>>

\* the already-running guard, the development-mode return, resource_dir()
StartCheck(t) ==
    /\ pc[t] = "start_check"
    /\ IF is_some(store) \/ debug
       THEN Return(t, "start_backend", "Ok", 0)
       ELSE \/ Return(t, "start_backend", "Err", 0)      \* resource_dir() failed
            \/ /\ pc' = [pc EXCEPT ![t] = "start_spawn"]
               /\ UNCHANGED <<lock, last, prev, reportedStopped>>
    /\ UNCHANGED <<debug, target, exe, store, child, procs, spawned>>

\* start_backend whose failure is detected after the child has been created
StartSpawn_LeakOnErr(t) ==
    /\ pc[t] = "start_spawn"
    /\ \/ /\ spawned < MaxSpawns
          /\ spawned' = spawned + 1
          /\ procs' = [procs EXCEPT ![spawned + 1] = "running"]
          /\ exe' = [exe EXCEPT ![spawned + 1] = server_path(target)]
          /\ store' = store
          /\ Return(t, "start_backend", "Err", 0)
       \/ /\ spawned < MaxSpawns
          /\ spawned' = spawned + 1
          /\ procs' = [procs EXCEPT ![spawned + 1] = "running"]
          /\ exe' = [exe EXCEPT ![spawned + 1] = server_path(target)]
          /\ store' = <<Child(spawned + 1, FALSE)>>
          /\ Return(t, "start_backend", "Ok", spawned + 1)
    /\ UNCHANGED <<debug, target, child>>

\* start_backend that spawns the child but forgets to record its handle
StartSpawn_NoStore(t) ==
    /\ pc[t] = "start_spawn"
    /\ \/ /\ Return(t, "start_backend", "Err", 0)
          /\ UNCHANGED <<store, procs, spawned, exe>>
       \/ /\ spawned < MaxSpawns
          /\ spawned' = spawned + 1
          /\ procs' = [procs EXCEPT ![spawned + 1] = "running"]
          /\ exe' = [exe EXCEPT ![spawned + 1] = server_path(target)]
          /\ store' = store
          /\ Return(t, "start_backend", "Ok", spawned + 1)
    /\ UNCHANGED <<debug, target, child>>

\* Command::new(..).spawn() and the store of the handle
StartSpawn(t) ==
    /\ pc[t] = "start_spawn"
    /\ \/ /\ Return(t, "start_backend", "Err", 0)         \* spawn failed
          /\ UNCHANGED <<store, procs, spawned, exe>>
       \/ /\ spawned < MaxSpawns
          /\ spawned' = spawned + 1
          /\ procs' = [procs EXCEPT ![spawned + 1] = "running"]
          /\ exe' = [exe EXCEPT ![spawned + 1] = server_path(target)]
          /\ store' = <<Child(spawned + 1, FALSE)>>
          /\ Return(t, "start_backend", "Ok", spawned + 1)
    /\ UNCHANGED <<debug, target, child>>

\* ------------------------------------------------------------- stop_backend
StopCall(t) ==
    /\ t \in UIThreads
    /\ pc[t] = "idle"
    /\ pc' = [pc EXCEPT ![t] = "stop_lock"]
    /\ UNCHANGED <<debug, target, exe, store, child, procs, spawned, lock, last, prev, reportedStopped>>

\* WindowEvent::CloseRequested: the handler calls stop_backend
CloseRequested ==
    /\ pc[WinHandler] = "idle"
    /\ pc' = [pc EXCEPT ![WinHandler] = "stop_lock"]
    /\ UNCHANGED <<debug, target, exe, store, child, procs, spawned, lock, last, prev, reportedStopped>>

\* state.0.lock().unwrap(): blocks until the mutex is free
StopLock(t) ==
    /\ pc[t] = "stop_lock"
    /\ lock = {}
    /\ lock' = {t}
    /\ pc' = [pc EXCEPT ![t] = "stop_take"]
    /\ UNCHANGED <<debug, target, exe, store, child, procs, spawned, last, prev, reportedStopped>>

\* stop_backend that looks at the handle without taking it out of the store
StopTake_AsRef(t) ==
    /\ pc[t] = "stop_take"
    /\ store' = store
    /\ child' = store
    /\ IF is_some(store)
       THEN /\ pc' = [pc EXCEPT ![t] = "stop_kill"]
            /\ UNCHANGED <<lock, last, prev, reportedStopped>>
       ELSE Return(t, "stop_backend", "Ok", 0)
    /\ UNCHANGED <<debug, target, exe, procs, spawned>>

\* stop_backend that reports an error when nothing is running
StopTake_Strict(t) ==
    /\ pc[t] = "stop_take"
    /\ store' = <<>>
    /\ child' = store
    /\ IF is_some(store)
       THEN /\ pc' = [pc EXCEPT ![t] = "stop_kill"]
            /\ UNCHANGED <<lock, last, prev, reportedStopped>>
       ELSE Return(t, "stop_backend", "Err", 0)
    /\ UNCHANGED <<debug, target, exe, procs, spawned>>

\* process_guard.take()
StopTake(t) ==
    /\ pc[t] = "stop_take"
    /\ store' = <<>>
    /\ child' = store
    /\ IF is_some(store)
       THEN /\ pc' = [pc EXCEPT ![t] = "stop_kill"]
            /\ UNCHANGED <<lock, last, prev, reportedStopped>>
       ELSE Return(t, "stop_backend", "Ok", 0)
    /\ UNCHANGED <<debug, target, exe, procs, spawned>>

\* stop_backend that puts the handle back when the kill fails
StopKill_Restore(t) ==
    /\ pc[t] = "stop_kill"
    /\ LET c == child[1] IN
       \/ /\ c.status
          /\ pc' = [pc EXCEPT ![t] = "stop_wait"]
          /\ UNCHANGED <<store, child, procs, lock, last, prev, reportedStopped>>
       \/ /\ ~c.status
          /\ procs' = [procs EXCEPT ![c.pid] = IF @ = "running" THEN "killed" ELSE @]
          /\ pc' = [pc EXCEPT ![t] = "stop_wait"]
          /\ UNCHANGED <<store, child, lock, last, prev, reportedStopped>>
       \/ /\ ~c.status
          /\ store' = child
          /\ child' = <<>>
          /\ Return(t, "stop_backend", "Err", c.pid)
          /\ UNCHANGED procs
    /\ UNCHANGED <<debug, target, exe, spawned>>

\* child.kill(): Ok without a signal when the exit status is already cached
StopKill(t) ==
    /\ pc[t] = "stop_kill"
    /\ LET c == child[1] IN
       \/ /\ c.status
          /\ pc' = [pc EXCEPT ![t] = "stop_wait"]
          /\ UNCHANGED <<child, procs, lock, last, prev, reportedStopped>>
       \/ /\ ~c.status
          /\ procs' = [procs EXCEPT ![c.pid] = IF @ = "running" THEN "killed" ELSE @]
          /\ pc' = [pc EXCEPT ![t] = "stop_wait"]
          /\ UNCHANGED <<child, lock, last, prev, reportedStopped>>
       \/ /\ ~c.status                                   \* the signal could not be sent
          /\ child' = <<>>
          /\ Return(t, "stop_backend", "Err", c.pid)
          /\ UNCHANGED procs
    /\ UNCHANGED <<debug, target, exe, store, spawned>>

\* stop_backend that returns after the kill without waiting for the child
StopWait_NoWait(t) ==
    /\ pc[t] = "stop_wait"
    /\ LET c == child[1] IN
       /\ child' = <<>>
       /\ Return(t, "stop_backend", "Ok", c.pid)
    /\ UNCHANGED <<debug, target, exe, store, procs, spawned>>

\* child.wait(): blocks until the child has terminated, collects its status
StopWait(t) ==
    /\ pc[t] = "stop_wait"
    /\ LET c == child[1] IN
       /\ c.status \/ procs[c.pid] = "zombie"
       /\ procs' = [procs EXCEPT ![c.pid] = "reaped"]
       /\ child' = <<>>
       /\ Return(t, "stop_backend", "Ok", c.pid)
    /\ UNCHANGED <<debug, target, exe, store, spawned>>

\* ------------------------------------------------------- get_backend_status
StatusCall(t) ==
    /\ t \in UIThreads
    /\ pc[t] = "idle"
    /\ pc' = [pc EXCEPT ![t] = "status_lock"]
    /\ UNCHANGED <<debug, target, exe, store, child, procs, spawned, lock, last, prev, reportedStopped>>

\* get_backend_status that reads the slot without waiting for the mutex
StatusLock_NoLock(t) ==
    /\ pc[t] = "status_lock"
    /\ lock' = lock \cup {t}
    /\ pc' = [pc EXCEPT ![t] = "status_check"]
    /\ UNCHANGED <<debug, target, exe, store, child, procs, spawned, last, prev, reportedStopped>>

\* state.0.lock().unwrap(): blocks until the mutex is free
StatusLock(t) ==
    /\ pc[t] = "status_lock"
    /\ lock = {}
    /\ lock' = {t}
    /\ pc' = [pc EXCEPT ![t] = "status_check"]
    /\ UNCHANGED <<debug, target, exe, store, child, procs, spawned, last, prev, reportedStopped>>

\* get_backend_status that hands the error of the liveness check to its caller
StatusCheck_Propagate(t) ==
    /\ pc[t] = "status_check"
    /\ IF ~is_some(store)
       THEN /\ Return(t, "get_backend_status", "stopped", 0)
            /\ UNCHANGED <<store, procs>>
       ELSE LET c == store[1] IN
            IF c.status
            THEN /\ Return(t, "get_backend_status", "stopped", c.pid)
                 /\ UNCHANGED <<store, procs>>
            ELSE \/ /\ Return(t, "get_backend_status", "Err", c.pid)
                    /\ UNCHANGED <<store, procs>>
                 \/ /\ procs[c.pid] = "zombie"
                    /\ procs' = [procs EXCEPT ![c.pid] = "reaped"]
                    /\ store' = <<Child(c.pid, TRUE)>>
                    /\ Return(t, "get_backend_status", "stopped", c.pid)
                 \/ /\ procs[c.pid] # "zombie"
                    /\ Return(t, "get_backend_status", "running", c.pid)
                    /\ UNCHANGED <<store, procs>>
    /\ UNCHANGED <<debug, target, exe, child, spawned>>

\* get_backend_status with the Ok(Some(_)) and Ok(None) arms exchanged
StatusCheck_Swapped(t) ==
    /\ pc[t] = "status_check"
    /\ IF ~is_some(store)
       THEN /\ Return(t, "get_backend_status", "stopped", 0)
            /\ UNCHANGED <<store, procs>>
       ELSE LET c == store[1] IN
            IF c.status
            THEN /\ Return(t, "get_backend_status", "running", c.pid)
                 /\ UNCHANGED <<store, procs>>
            ELSE \/ /\ Return(t, "get_backend_status", "unknown", c.pid)
                    /\ UNCHANGED <<store, procs>>
                 \/ /\ procs[c.pid] = "zombie"
                    /\ procs' = [procs EXCEPT ![c.pid] = "reaped"]
                    /\ store' = <<Child(c.pid, TRUE)>>
                    /\ Return(t, "get_backend_status", "running", c.pid)
                 \/ /\ procs[c.pid] # "zombie"
                    /\ Return(t, "get_backend_status", "stopped", c.pid)
                    /\ UNCHANGED <<store, procs>>
    /\ UNCHANGED <<debug, target, exe, child, spawned>>

\* get_backend_status that removes the handle once it has observed the exit
StatusCheck_Reap(t) ==
    /\ pc[t] = "status_check"
    /\ IF ~is_some(store)
       THEN /\ Return(t, "get_backend_status", "stopped", 0)
            /\ UNCHANGED <<store, procs>>
       ELSE LET c == store[1] IN
            \/ /\ Return(t, "get_backend_status", "unknown", c.pid)
               /\ UNCHANGED <<store, procs>>
            \/ /\ procs[c.pid] = "zombie"
               /\ procs' = [procs EXCEPT ![c.pid] = "reaped"]
               /\ store' = <<>>
               /\ Return(t, "get_backend_status", "stopped", c.pid)
            \/ /\ procs[c.pid] # "zombie"
               /\ Return(t, "get_backend_status", "running", c.pid)
               /\ UNCHANGED <<store, procs>>
    /\ UNCHANGED <<debug, target, exe, child, spawned>>

\* get_backend_status that answers from the presence of the handle alone
StatusCheck_Cached(t) ==
    /\ pc[t] = "status_check"
    /\ IF ~is_some(store)
       THEN Return(t, "get_backend_status", "stopped", 0)
       ELSE Return(t, "get_backend_status", "running", store[1].pid)
    /\ UNCHANGED <<debug, target, exe, store, child, procs, spawned>>

\* match process_guard.as_ref() { Some(child) => child.try_wait() .., None => .. }
StatusCheck(t) ==
    /\ pc[t] = "status_check"
    /\ IF ~is_some(store)
       THEN /\ Return(t, "get_backend_status", "stopped", 0)
            /\ UNCHANGED <<store, procs>>
       ELSE LET c == store[1] IN
            IF c.status
            THEN /\ Return(t, "get_backend_status", "stopped", c.pid)
                 /\ UNCHANGED <<store, procs>>
            ELSE \/ /\ Return(t, "get_backend_status", "unknown", c.pid)
                    /\ UNCHANGED <<store, procs>>
                 \/ /\ procs[c.pid] = "zombie"
                    /\ procs' = [procs EXCEPT ![c.pid] = "reaped"]
                    /\ store' = <<Child(c.pid, TRUE)>>
                    /\ Return(t, "get_backend_status", "stopped", c.pid)
                 \/ /\ procs[c.pid] # "zombie"
                    /\ Return(t, "get_backend_status", "running", c.pid)
                    /\ UNCHANGED <<store, procs>>
    /\ UNCHANGED <<debug, target, exe, child, spawned>>

\* -------------------------------------------------------------- get_api_url
get_api_url == "http://localhost:8080"

\* the command is invoked while the persisted configuration file is cfg
GetApiUrl(t, cfg) ==
    /\ t \in UIThreads
    /\ pc[t] = "idle"
    /\ last' = [op |-> "get_api_url", res |-> get_api_url, pid |-> 0, cfg |-> cfg]
    /\ prev' = last
    /\ UNCHANGED <<debug, target, exe, store, child, procs, spawned, lock, pc, reportedStopped>>

\* ------------------------------------------------------ the operating system
\* the backend exits on its own or is killed from outside
ProcExit(p) ==
    /\ procs[p] = "running"
    /\ procs' = [procs EXCEPT ![p] = "zombie"]
    /\ UNCHANGED <<debug, target, exe, store, child, spawned, lock, pc, last, prev, reportedStopped>>

\* the SIGKILL sent by child.kill() terminates the backend
ProcDie(p) ==
    /\ procs[p] = "killed"
    /\ procs' = [procs EXCEPT ![p] = "zombie"]
    /\ UNCHANGED <<debug, target, exe, store, child, spawned, lock, pc, last, prev, reportedStopped>>

Next ==
    \/ AutoStart
    \/ CloseRequested
    \/ \E t \in Threads :
         \/ StartCall(t) \/ StartLock(t) \/ StartCheck(t) \/ StartSpawn(t)
         \/ StopCall(t) \/ StopLock(t) \/ StopTake(t) \/ StopKill(t) \/ StopWait(t)
         \/ StatusCall(t) \/ StatusLock(t) \/ StatusCheck(t)
         \/ \E cfg \in ConfigFiles : GetApiUrl(t, cfg)
    \/ \E p \in Pids : ProcExit(p) \/ ProcDie(p)

Spec == Init /\ [][Next]_vars

\* the same program built for every target
SpecTargets == InitTargets /\ [][Next]_vars

TypeOK ==
    /\ debug \in BOOLEAN
    /\ target \in Targets
    /\ reportedStopped \in BOOLEAN
    /\ Len(store) <= 1
    /\ Len(child) <= 1
    /\ spawned \in 0..MaxSpawns
    /\ lock \subseteq Threads
\* ================================================================== claims
\* thread t leaves the given positions in this step by returning to its caller
Returns(t, from) == pc[t] \in from /\ pc'[t] = Done(t)

StartReturns(t) == Returns(t, {"start_check", "start_spawn"})
StopReturns(t) == Returns(t, {"stop_take", "stop_kill", "stop_wait"})
StatusReturns(t) == Returns(t, {"status_check"})

\* C1: the store holds at most one handle in every reachable state, and a
\* step that spawns a child process starts from an empty store.
C1_AtMostOneHandle ==
    [][/\ Len(store') <= 1
       /\ spawned' # spawned => ~is_some(store)]_vars

\* start_backend has returned Ok without spawning because a handle is stored
C1_Witness ==
    /\ ~debug
    /\ is_some(store)
    /\ last.op = "start_backend" /\ last.res = "Ok" /\ last.pid = 0
    /\ spawned = 1

\* the last command to return was a start_backend that spawned a child which
\* has not exited since
FreshStart ==
    /\ last.op = "start_backend" /\ last.res = "Ok" /\ last.pid # 0
    /\ procs[last.pid] = "running"

\* C2 (as stated): a get_backend_status that follows a successful spawning
\* start_backend, with no stop and no exit of the child in between, returns
\* "running".
C2_StartThenStatusRunning ==
    [][\A t \in Threads :
         StatusReturns(t) /\ FreshStart => last'.res = "running"]_vars

\* C2 (amended): such a get_backend_status returns "running", or "unknown"
\* when the liveness check itself fails; it never returns "stopped", and it
\* reports on the child that was just spawned.
C2_StartThenStatusNotStopped ==
    [][\A t \in Threads :
         StatusReturns(t) /\ FreshStart =>
            /\ last'.res \in {"running", "unknown"}
            /\ last'.pid = last.pid]_vars

\* get_backend_status returned "running" right after a spawning start_backend
C2_Witness ==
    /\ prev.op = "start_backend" /\ prev.res = "Ok" /\ prev.pid # 0
    /\ last.op = "get_backend_status" /\ last.res = "running"
    /\ last.pid = prev.pid

\* C3: a get_backend_status that returns next after a stop_backend (Ok or
\* Err), with no start_backend returning in between, returns "stopped".
C3_StopThenStatusStopped ==
    [][\A t \in Threads :
         StatusReturns(t) /\ last.op = "stop_backend" => last'.res = "stopped"]_vars

\* get_backend_status returned "stopped" right after a stop_backend whose kill
\* failed
C3_Witness ==
    /\ prev.op = "stop_backend" /\ prev.res = "Err"
    /\ last.op = "get_backend_status" /\ last.res = "stopped"

\* the child recorded in the store has exited (on its own or by a signal)
StoredChildExited ==
    is_some(store) /\ procs[store[1].pid] \in {"zombie", "reaped"}

\* C4 (as stated): when the stored child has exited, get_backend_status
\* reports "stopped".
C4_ExitedReportsStopped ==
    [][\A t \in Threads :
         StatusReturns(t) /\ StoredChildExited => last'.res = "stopped"]_vars

\* C4 (amended): when the stored child has exited, get_backend_status never
\* reports "running": it reports "stopped", or "unknown" when the liveness
\* check itself fails; once the exit has been observed it reports "stopped".
C4_ExitedNeverReportsRunning ==
    [][\A t \in Threads :
         StatusReturns(t) /\ StoredChildExited =>
            /\ last'.res \in {"stopped", "unknown"}
            /\ store[1].status => last'.res = "stopped"]_vars

\* get_backend_status observed the exit of the child whose handle is stored
C4_Witness ==
    /\ is_some(store) /\ store[1].status
    /\ last.op = "get_backend_status" /\ last.res = "stopped"
    /\ last.pid = store[1].pid
    /\ prev.op = "start_backend" /\ prev.pid = last.pid

\* C5: stop_backend on an empty store returns Ok, changes no process and
\* leaves the store empty.
C5_StopOnEmptyIsNoop ==
    [][\A t \in Threads :
         StopReturns(t) /\ pc[t] = "stop_take" /\ ~is_some(store) =>
            /\ last'.op = "stop_backend" /\ last'.res = "Ok" /\ last'.pid = 0
            /\ procs' = procs
            /\ store' = <<>> /\ child' = <<>>]_vars

\* stop_backend has returned from an empty store and a status call followed
C5_Witness ==
    /\ prev.op = "stop_backend" /\ prev.res = "Ok" /\ prev.pid = 0
    /\ last.op = "get_backend_status" /\ last.res = "stopped"
    /\ store = <<>>
\* the backend is Stopped: no handle is stored, or the exit of the stored
\* child has been observed by get_backend_status
Stopped == ~is_some(store) \/ store[1].status

\* C6 (as stated): a start_backend that returns Ok in a production build from
\* the Stopped state has spawned a new process and stored its handle.
C6_FreshStartFromStopped ==
    [][\A t \in Threads :
         StartReturns(t) /\ ~debug /\ Stopped /\ last'.res = "Ok" =>
            /\ spawned' = spawned + 1
            /\ is_some(store') /\ store'[1].pid = spawned'
            /\ procs'[spawned'] = "running"]_vars

\* the window CloseRequested handler has run to completion
Closed == pc[WinHandler] = "done"

\* C7 (as stated): once the CloseRequested handler has returned, no spawned
\* backend process is running.
C7_NoBackendAfterClose ==
    Closed => \A p \in Pids : procs[p] # "running"

C9_StoreEmptyAfterStop ==
    [][\A t \in Threads :
         StopReturns(t) =>
            /\ store' = <<>> /\ child' = <<>>
            /\ last'.res = "Err" => (last'.pid # 0 /\ procs' = procs)]_vars

\* stop_backend returned Err and the store is empty while the child lives on
C9_Witness ==
    /\ last.op = "stop_backend" /\ last.res = "Err"
    /\ store = <<>>
    /\ procs[last.pid] = "running"

\* what the spec's resolveApiEndpoint returns for a configuration file
ExpectedApiUrl(cfg) ==
    IF cfg.kind = "ok"
    THEN "http://localhost:" \o ToString(cfg.api)
    ELSE "http://localhost:" \o ToString(DefaultPort)

\* C10 (as stated): get_api_url returns the URL of the port at ports.api of a
\* well-formed configuration file, and the default URL otherwise.
C10_ApiUrlFromConfig ==
    last.op = "get_api_url" => last.res = ExpectedApiUrl(last.cfg)
\* operating systems for which start_backend names a binary
SupportedOS == {"macos", "windows", "linux"}

\* C11 (as stated): in a production build for an operating system that is
\* not supported, start_backend spawns nothing and never returns Ok.
C11_UnsupportedOsFails ==
    (~debug /\ target.os \notin SupportedOS) =>
        /\ spawned = 0
        /\ last.op = "start_backend" => last.res = "Err"

\* the architecture a bundled binary is built for (from its target triple)
BuiltFor(name) ==
    IF name = "server-aarch64-apple-darwin" THEN "aarch64" ELSE "x86_64"

\* the binary name the claim gives for the supported targets
ClaimedName(tg) ==
    CASE tg.os = "macos" /\ tg.arch = "aarch64" -> "server-aarch64-apple-darwin"
      [] tg.os = "macos" /\ tg.arch = "x86_64" -> "server-x86_64-apple-darwin"
      [] tg.os = "windows" -> "server-x86_64-pc-windows-msvc.exe"
      [] tg.os = "linux" -> "server-x86_64-unknown-linux-gnu"

\* C12 (as stated): every process spawned by a build for a supported
\* operating system runs <resource_dir>/binaries/<name> with the name the
\* table gives for the target, and that binary is built for the target's
\* architecture.
C12_BinaryMatchesTarget ==
    \A p \in Pids :
        (procs[p] # "unborn" /\ target.os \in SupportedOS) =>
            /\ exe[p] = <<"resource_dir", "binaries", ClaimedName(target)>>
            /\ BuiltFor(exe[p][3]) = target.arch

StatusValues == {"running", "stopped", "unknown"}

\* C13: every get_backend_status call returns one of "running", "stopped",
\* "unknown"; an empty store gives "stopped"; "unknown" is the answer of a
\* liveness check made on a stored handle whose exit was not yet observed,
\* and that check changes neither the store nor the process table.
C13_StatusTotal ==
    [][\A t \in Threads :
         (pc[t] = "status_check" /\ pc'[t] # "status_check") =>
            /\ pc'[t] = Done(t)
            /\ last'.op = "get_backend_status"
            /\ last'.res \in StatusValues
            /\ ~is_some(store) => last'.res = "stopped"
            /\ last'.res = "unknown" =>
                  (is_some(store) /\ ~store[1].status /\ store' = store /\ procs' = procs)]_vars

\* the liveness check failed and get_backend_status returned "unknown"
C13_Witness ==
    /\ last.op = "get_backend_status" /\ last.res = "unknown"
    /\ is_some(store) /\ store[1].pid = last.pid

\* the positions in which a thread is inside a blocking call on the child
Blocking == {"start_spawn", "stop_kill", "stop_wait"}

\* C14 (as stated): no thread owns the store's lock while it is in the
\* process spawn or in the kill/wait of the child.
C14_LockNotHeldWhileBlocking ==
    \A t \in Threads : pc[t] \in Blocking => t \notin lock

\* the positions between the acquisition of the lock and the return
Critical == {"start_check", "start_spawn", "stop_take", "stop_kill", "stop_wait", "status_check"}

\* C15: at most one thread is inside the read/modify section of the store,
\* it owns the lock, and a status check never runs while a stop holds a
\* handle it has taken.
C15_MutualExclusion ==
    /\ Cardinality({t \in Threads : pc[t] \in Critical}) <= 1
    /\ Cardinality(lock) <= 1
    /\ \A t \in Threads : pc[t] \in Critical <=> t \in lock
    /\ \A t \in Threads : pc[t] = "status_check" => child = <<>>

\* a stop has taken the handle and is killing the child while a status call
\* and a start call wait for the lock
C15_Witness ==
    /\ pc[WinHandler] \in {"stop_kill", "stop_wait"}
    /\ \E t \in UIThreads : pc[t] = "status_lock"
    /\ pc[AutoTask] = "start_lock"
\* C16: once get_backend_status has reported "stopped", no get_backend_status
\* reports "running" until a start_backend has spawned a new process and
\* stored its handle.
C16_NoRunningAfterStopped ==
    [][\A t \in Threads :
         (StatusReturns(t) /\ last'.res = "running") => ~reportedStopped]_vars

\* the exit of the stored child was reported, a start_backend in between
\* spawned nothing, and the next status still reports "stopped"
C16_Witness ==
    /\ reportedStopped
    /\ is_some(store) /\ store[1].status
    /\ prev.op = "start_backend" /\ prev.res = "Ok" /\ prev.pid = 0
    /\ last.op = "get_backend_status" /\ last.res = "stopped"
    /\ last.pid = store[1].pid

\* C17: start_backend called while the store holds a handle returns Ok,
\* spawns nothing and leaves the stored handle and every process unchanged.
C17_StartWhileStoredIsNoop ==
    [][\A t \in Threads :
         (pc[t] = "start_check" /\ pc'[t] # "start_check" /\ is_some(store)) =>
            /\ pc'[t] = Done(t)
            /\ last'.op = "start_backend" /\ last'.res = "Ok" /\ last'.pid = 0
            /\ spawned' = spawned
            /\ store' = store
            /\ procs' = procs
            /\ exe' = exe]_vars

\* two start_backend calls in a row returned Ok on a stored handle
C17_Witness ==
    /\ ~debug
    /\ is_some(store) /\ procs[store[1].pid] = "running"
    /\ prev.op = "start_backend" /\ prev.res = "Ok" /\ prev.pid = 0
    /\ last.op = "start_backend" /\ last.res = "Ok" /\ last.pid = 0

\* C18: a start_backend that returns Err found the store empty, leaves it
\* empty and creates no child process.
C18_StartErrLeavesStoreEmpty ==
    [][\A t \in Threads :
         (StartReturns(t) /\ last'.res = "Err") =>
            /\ store = <<>> /\ store' = <<>>
            /\ spawned' = spawned
            /\ procs' = procs
            /\ exe' = exe]_vars

\* a start_backend failed and the next start_backend spawned the backend
C18_Witness ==
    /\ prev.op = "start_backend" /\ prev.res = "Err"
    /\ last.op = "start_backend" /\ last.res = "Ok" /\ last.pid # 0
    /\ is_some(store) /\ store[1].pid = last.pid

\* C19: get_backend_status neither inserts, removes nor replaces the handle:
\* the store holds a handle of the same child after the call exactly when it
\* held one before.
C19_StatusKeepsHandle ==
    [][\A t \in Threads :
         StatusReturns(t) =>
            /\ Len(store') = Len(store)
            /\ is_some(store) => store'[1].pid = store[1].pid]_vars

\* two status calls in a row found the exited child's handle in the store
C19_Witness ==
    /\ is_some(store) /\ store[1].status
    /\ prev.op = "get_backend_status" /\ prev.res = "stopped" /\ prev.pid = store[1].pid
    /\ last.op = "get_backend_status" /\ last.res = "stopped" /\ last.pid = store[1].pid

\* no command is in progress
Quiescent == \A t \in Threads : pc[t] \in {"sleep", "idle", "done"}

\* C20 (as stated): when no operation is in progress, every spawned process
\* that is still alive has its handle in the store, so at most one is alive.
C20_NoOrphan ==
    Quiescent =>
        /\ \A p \in Pids :
              procs[p] = "running" => (is_some(store) /\ store[1].pid = p)
        /\ Cardinality({p \in Pids : procs[p] = "running"}) <= 1
====
